---- MODULE Spec2Model ----
(***************************************************************************)
(* Model of checkedcast: checked_cast<Target>(Source), the deferred        *)
(* conversion wrapper checked_cast_call_container<T>, and the call         *)
(* decorator checked_cast_call (checked_cast.h), driven by the callees of  *)
(* main.cpp.                                                               *)
(*                                                                         *)
(* Integral types are fixed-width two's-complement integers.  char and     *)
(* short keep their 8 and 16 bits; int and long (size_t, ssize_t) are      *)
(* narrower than on a real LP64 build so that every value stays inside     *)
(* the model checker's integers.  Only 16 < IntBits < LongBits is used.    *)
(***************************************************************************)
EXTENDS Integers, Sequences, FiniteSets, TLC

\* Width of int / unsigned int in the model (32 on the real build).
IntBits == 18

\* Width of long / unsigned long, i.e. ssize_t / size_t (64 on the real build).
LongBits == 20

RECURSIVE Pow2(_)
Pow2(n) == IF n = 0 THEN 1 ELSE 2 * Pow2(n - 1)

(***************************************************************************)
(* Types.  kind is "bool", "int" (a fixed-width integer), or "opaque"      *)
(* (pointer or other non-integral type).                                   *)
(***************************************************************************)
IntType(n, s, b) == [name |-> n, kind |-> "int", signed |-> s, bits |-> b]

BoolT == [name |-> "bool", kind |-> "bool", signed |-> FALSE, bits |-> 1]

SCharT == IntType("signed char", TRUE, 8)

UCharT == IntType("unsigned char", FALSE, 8)

\* Plain char: a type of its own whose signedness the build chooses.
CharT(isSigned) == IntType("char", isSigned, 8)

ShortT == IntType("short int", TRUE, 16)

UShortT == IntType("short unsigned int", FALSE, 16)

IntT == IntType("int", TRUE, IntBits)

UIntT == IntType("unsigned int", FALSE, IntBits)

\* ssize_t (long)
SSizeT == IntType("long int", TRUE, LongBits)

\* size_t (unsigned long)
SizeT == IntType("long unsigned int", FALSE, LongBits)

ConstCharPtr == [name |-> "const char*", kind |-> "opaque", signed |-> FALSE, bits |-> 0]

ConstVoidPtr == [name |-> "const void*", kind |-> "opaque", signed |-> FALSE, bits |-> 0]

FilePtr == [name |-> "FILE*", kind |-> "opaque", signed |-> FALSE, bits |-> 0]

IntegralTypes(cs) == {BoolT, SCharT, UCharT, CharT(cs), ShortT, UShortT, IntT, UIntT, SSizeT, SizeT}

OpaqueTypes == {ConstCharPtr, ConstVoidPtr, FilePtr}

\* std::is_integral<T>::value
IsIntegral(T) == T.kind \in {"bool", "int"}

\* std::is_same<Target, Source>::value
IsSame(Target, Source) == Target = Source

MinOf(T) == IF T.signed THEN 0 - Pow2(T.bits - 1) ELSE 0

MaxOf(T) == IF T.signed THEN Pow2(T.bits - 1) - 1 ELSE Pow2(T.bits) - 1

\* The mathematical value x is representable by the integral type T.
InRange(T, x) == MinOf(T) <= x /\ x <= MaxOf(T)

(***************************************************************************)
(* static_cast<T>(x) of an integral value: bool is x != 0, a fixed-width   *)
(* integer is x modulo 2^bits taken into the type's range.  A non-integral *)
(* T keeps the value.                                                      *)
(***************************************************************************)
StaticCast(T, x) ==
    IF T.kind = "bool" THEN (IF x = 0 THEN 0 ELSE 1)
    ELSE IF T.kind = "int" THEN
        LET m == x % Pow2(T.bits)
        IN  IF T.signed /\ m >= Pow2(T.bits - 1) THEN m - Pow2(T.bits) ELSE m
    ELSE x

\* Representable values tried for each type: the limits of every integral
\* type, their neighbours, and the sizes 100, 142 and 256 used by main().
Samples(cs) ==
    UNION {{MinOf(T) - 1, MinOf(T), MaxOf(T), MaxOf(T) + 1} : T \in IntegralTypes(cs)}
        \cup {0 - 1, 0, 1, 100, 142, 200, 256}

\* Addresses tried for pointer values (0 is the null pointer).
Addresses == {0, 300, 70000}

Values(T, cs) ==
    IF T.kind = "bool" THEN {0, 1}
    ELSE IF T.kind = "int" THEN {x \in Samples(cs) : InRange(T, x)}
    ELSE Addresses

(***************************************************************************)
(* Text is a sequence of characters; text without a colon in it is kept   *)
(* as one token.                                                           *)
(***************************************************************************)
Overflowed ==
    <<"c","h","e","c","k","e","d","_","c","a","s","t","<",">","(",")"," ",
      "o","v","e","r","f","l","o","w","e","d">>

\* __PRETTY_FUNCTION__ of the instantiation checked_cast<Target, Source>,
\* as g++ renders it.
PrettyFunction(Target, Source) ==
    <<"constexpr auto checked_cast(Source) [with Target = ", Target.name,
      "; Source = ", Source.name, "]">>

\* checked_cast_throw as it would be with the fixed prefix left out.
checked_cast_throw_bare(pretty) == pretty

\* The what() of the std::runtime_error thrown by checked_cast_throw(pretty).
checked_cast_throw(pretty) == Overflowed \o <<":", " ">> \o pretty

\* s.substr(0, s.find(':')): everything before the first colon, or all of s.
first_colon(s) ==
    LET hits == {i \in 1..Len(s) : s[i] = ":"}
    IN  IF hits = {} THEN s
        ELSE SubSeq(s, 1, (CHOOSE i \in hits : \A j \in hits : i <= j) - 1)

NoWhat == <<>>

Returned(T, x) == [thrown |-> FALSE, type |-> T, val |-> x, what |-> NoWhat]

Thrown(T, msg) == [thrown |-> TRUE, type |-> T, val |-> 0, what |-> msg]

\* checked_cast as it would be with the round trip compared in Target's
\* domain (r != static_cast<Target>(v)): the test can never fail.
checked_cast_target_domain(Target, Source, v) ==
    IF IsSame(Target, Source) THEN Returned(Source, v)
    ELSE IF ~IsIntegral(Source) THEN Returned(Source, v)
    ELSE LET r == StaticCast(Target, v)
         IN  IF r # StaticCast(Target, v)
             THEN Thrown(Target, checked_cast_throw(PrettyFunction(Target, Source)))
             ELSE Returned(Target, r)

\* checked_cast as it would be with no same-type branch and the test
\* inverted (== for !=).
checked_cast_inverted(Target, Source, v) ==
    IF ~IsIntegral(Source) THEN Returned(Source, v)
    ELSE LET r == StaticCast(Target, v)
         IN  IF StaticCast(Source, r) = v
             THEN Thrown(Target, checked_cast_throw(PrettyFunction(Target, Source)))
             ELSE Returned(Target, r)

\* checked_cast as it would be without the !is_integral<Source> branch.
checked_cast_no_pass_through(Target, Source, v) ==
    IF IsSame(Target, Source) THEN Returned(Source, v)
    ELSE LET r == StaticCast(Target, v)
         IN  IF StaticCast(Source, r) # v
             THEN Thrown(Target, checked_cast_throw(PrettyFunction(Target, Source)))
             ELSE Returned(Target, r)

(***************************************************************************)
(* checked_cast<Target>(Source v): the outcome is either the returned      *)
(* value with its type, or the exception thrown.                           *)
(***************************************************************************)
checked_cast(Target, Source, v) ==
    IF IsSame(Target, Source) THEN Returned(Source, v)
    ELSE IF ~IsIntegral(Source) THEN Returned(Source, v)
    ELSE LET r == StaticCast(Target, v)
         IN  IF StaticCast(Source, r) # v
             THEN Thrown(Target, checked_cast_throw(PrettyFunction(Target, Source)))
             ELSE Returned(Target, r)

(***************************************************************************)
(* checked_cast_call_container<T>                                          *)
(***************************************************************************)
\* The constructor: the wrapper owns a copy of the value, unconverted.
checked_cast_call_container(T, v) == [T |-> T, result |-> v]

\* operator U() as it would be with a plain static_cast<U>(_result).
OperatorU_unchecked(c, U) == Returned(U, StaticCast(U, c.result))

\* operator U(): return checked_cast<U>(_result), the returned value being
\* converted to U by the language where checked_cast passed it through.
OperatorU(c, U) ==
    LET o == checked_cast(U, c.T, c.result)
    IN  IF o.thrown THEN o ELSE Returned(U, StaticCast(U, o.val))

\* Integral promotion: every type narrower than int is promoted to int.
Promote(T) == IF T.bits < IntBits THEN IntT ELSE T

\* The usual arithmetic conversions: the common type of a comparison.
CommonType(A, B) ==
    LET a == Promote(A)
        b == Promote(B)
    IN  IF a = b THEN a
        ELSE IF a.signed = b.signed THEN (IF a.bits >= b.bits THEN a ELSE b)
        ELSE LET u == IF a.signed THEN b ELSE a
                 g == IF a.signed THEN a ELSE b
             IN  IF u.bits >= g.bits THEN u ELSE g

\* operator== as it would be if the stored value were converted to U first.
OperatorEq_converted(c, U, other) == StaticCast(U, c.result) = other

\* operator==(const U& other): _result == other, compared by the language.
OperatorEq(c, U, other) ==
    IF IsIntegral(c.T) /\ IsIntegral(U)
    THEN LET C == CommonType(c.T, U)
         IN  StaticCast(C, c.result) = StaticCast(C, other)
    ELSE c.result = other

\* operator!=(const U& other): !((*this) == other)
OperatorNe(c, U, other) == ~OperatorEq(c, U, other)

(***************************************************************************)
(* Callees.  size is the position of the parameter the body returns.       *)
(***************************************************************************)
\* static char my_write(const void*, char size, FILE*)
my_write(cs) ==
    [name |-> "my_write", params |-> <<ConstVoidPtr, CharT(cs), FilePtr>>,
     ret |-> CharT(cs), size |-> 2]

\* static ssize_t my_write_ok(const void*, size_t size, FILE*)
my_write_ok ==
    [name |-> "my_write_ok", params |-> <<ConstVoidPtr, SizeT, FilePtr>>,
     ret |-> SSizeT, size |-> 2]

\* Any other callable handed to checked_cast_call(fn, args...): one with two
\* integral parameters, so that either position can be the one that fails.
fn(cs) ==
    [name |-> "fn", params |-> <<ShortT, CharT(cs)>>, ret |-> SSizeT, size |-> 1]

Callees(cs) == {my_write(cs), my_write_ok, fn(cs)}

\* The caller's arguments for a callee, each with its caller-side type.
ArgLists(f, cs) ==
    IF f.name = "fn"
    THEN {<<checked_cast_call_container(IntT, a), checked_cast_call_container(SizeT, b)>> :
            a \in {0 - 1, 100, 32767, 32768}, b \in {100, 127, 142, 256}}
    ELSE {<<checked_cast_call_container(ConstCharPtr, 300),
            checked_cast_call_container(SizeT, n),
            checked_cast_call_container(FilePtr, 70000)>> : n \in Values(SizeT, cs)}

\* The body as it would be if it wrote nothing: return 0.
Body_wrote_nothing(f, ps, log) == [ret |-> 0, log |-> Append(log, 0)]

\* The callee's body: "pretend we wrote everything", return size converted
\* to the return type.  The log of sizes written is its side effect.
Body(f, ps, log) ==
    [ret |-> StaticCast(f.ret, ps[f.size]), log |-> Append(log, ps[f.size])]

\* The invocation as it would be if checked_cast_call evaluated fn(...) twice.
Invoke_twice(f, ps, st) ==
    LET b == Body(f, ps, Body(f, ps, st.log).log)
    IN  [n |-> st.n + 2, log |-> b.log, ret |-> b.ret]

\* The invocation fn(...) inside checked_cast_call: the body runs once.
Invoke(f, ps, st) ==
    LET b == Body(f, ps, st.log)
    IN  [n |-> st.n + 1, log |-> b.log, ret |-> b.ret]

\* Every parameter of the call has been initialised from its wrapper.
AllBound(bs) == \A i \in 1..Len(bs) : bs[i] # <<>>

(***************************************************************************)
(* State                                                                   *)
(***************************************************************************)
VARIABLES
    charSigned,  \* the build: whether plain char is signed
    pc,          \* "idle", "binding", "held", "done" or "thrown"
    lastOp,      \* the step just taken
    cast,        \* <<>> or <<the direct checked_cast call and its outcome>>
    container,   \* <<>> or <<the wrapper the caller holds>>
    cmp,         \* <<>> or <<the comparison just made and its results>>
    call,        \* <<>> or <<the checked_cast_call in progress>>
    bound,       \* per parameter: <<>> or <<the value it was initialised with>>
    calls,       \* how many times the callee's body was entered in this call
    effects,     \* the callee's side effect: the sizes it wrote
    coerced,     \* <<>> or <<the coercion of the wrapper and its outcome>>
    exc          \* what() of the exception in flight, <<>> when there is none

vars == <<charSigned, pc, lastOp, cast, container, cmp, call, bound, calls,
          effects, coerced, exc>>

AllTypes(cs) == IntegralTypes(cs) \cup OpaqueTypes

\* The targets checked_cast<Target>(Source) can be instantiated with.
Targets(Source, cs) == IF IsIntegral(Source) THEN IntegralTypes(cs) ELSE AllTypes(cs)

\* The values a wrapper is compared with: the limits of U, zero, and the
\* stored value as U holds it.
Others(c, U, cs) ==
    {x \in Values(U, cs) : x \in {MinOf(U), MaxOf(U), 0, c.result, StaticCast(U, c.result)}}

\* The types a wrapper of T can be coerced to or compared with.
Destinations(T, cs) == IF IsIntegral(T) THEN IntegralTypes(cs) ELSE OpaqueTypes

Init ==
    /\ charSigned \in BOOLEAN
    /\ pc = "idle"
    /\ lastOp = "start"
    /\ cast = <<>>
    /\ container = <<>>
    /\ cmp = <<>>
    /\ call = <<>>
    /\ bound = <<>>
    /\ calls = 0
    /\ effects = <<>>
    /\ coerced = <<>>
    /\ exc = <<>>

\* A direct call checked_cast<Target>(v).
CheckedCast ==
    /\ pc = "idle"
    /\ \E Source \in AllTypes(charSigned) :
       \E Target \in Targets(Source, charSigned) :
       \E v \in Values(Source, charSigned) :
          LET o == checked_cast(Target, Source, v)
          IN  /\ cast' = <<[Target |-> Target, Source |-> Source, v |-> v, out |-> o]>>
              /\ exc' = o.what
              /\ pc' = IF o.thrown THEN "thrown" ELSE "done"
    /\ lastOp' = "checked_cast"
    /\ UNCHANGED <<charSigned, container, cmp, call, bound, calls, effects, coerced>>

\* const checked_cast_call_container c(v);
Construct ==
    /\ pc = "idle"
    /\ \E T \in AllTypes(charSigned) : \E v \in Values(T, charSigned) :
          container' = <<checked_cast_call_container(T, v)>>
    /\ pc' = "held"
    /\ lastOp' = "construct"
    /\ UNCHANGED <<charSigned, cast, cmp, call, bound, calls, effects, coerced, exc>>

\* c == other and c != other.  Comparing only reads the wrapper, so one
\* comparison per wrapper is followed: a second would start from the same.
Compare ==
    /\ pc = "held"
    /\ cmp = <<>>
    /\ \E U \in Destinations(container[1].T, charSigned) :
       \E other \in Others(container[1], U, charSigned) :
          cmp' = <<[U |-> U, other |-> other,
                    eq |-> OperatorEq(container[1], U, other),
                    ne |-> OperatorNe(container[1], U, other)]>>
    /\ lastOp' = "compare"
    /\ UNCHANGED <<charSigned, pc, cast, container, call, bound, calls, effects,
                   coerced, exc>>

\* U x = c;  the wrapper is coerced to the type its use demands.
Coerce ==
    /\ pc = "held"
    /\ \E U \in Destinations(container[1].T, charSigned) :
          LET o == OperatorU(container[1], U)
          IN  /\ coerced' = <<[U |-> U, out |-> o]>>
              /\ exc' = o.what
              /\ pc' = IF o.thrown THEN "thrown" ELSE "done"
    /\ cmp' = <<>>
    /\ lastOp' = "coerce"
    /\ UNCHANGED <<charSigned, cast, container, call, bound, calls, effects>>

\* checked_cast_call<f>(args...) or checked_cast_call(f, args...): every
\* argument is wrapped; no parameter is initialised yet.
BeginCall ==
    /\ pc = "idle"
    /\ \E overload \in {"template", "parameter"} :
       \E f \in Callees(charSigned) :
       \E args \in ArgLists(f, charSigned) :
          /\ call' = <<[overload |-> overload, f |-> f, args |-> args]>>
          /\ bound' = [i \in 1..Len(args) |-> <<>>]
    /\ pc' = "binding"
    /\ lastOp' = "wrap"
    /\ UNCHANGED <<charSigned, cast, container, cmp, calls, effects, coerced, exc>>

\* Parameter i is initialised from its wrapper (in whichever order the
\* build evaluates the arguments); a failed conversion abandons the call.
BindArg ==
    /\ pc = "binding"
    /\ \E i \in 1..Len(bound) :
          /\ bound[i] = <<>>
          /\ LET o == OperatorU(call[1].args[i], call[1].f.params[i])
             IN  IF o.thrown
                 THEN /\ exc' = o.what
                      /\ pc' = "thrown"
                      /\ bound' = bound
                 ELSE /\ bound' = [bound EXCEPT ![i] = <<o.val>>]
                      /\ UNCHANGED <<exc, pc>>
    /\ lastOp' = "bind"
    /\ UNCHANGED <<charSigned, cast, container, cmp, call, calls, effects, coerced>>

\* With every parameter initialised the callee runs, and its return value
\* is wrapped and handed to the caller.
InvokeCallee ==
    /\ pc = "binding"
    /\ AllBound(bound)
    /\ LET r == Invoke(call[1].f, [i \in 1..Len(bound) |-> bound[i][1]],
                       [n |-> calls, log |-> effects])
       IN  /\ calls' = r.n
           /\ effects' = r.log
           /\ container' = <<checked_cast_call_container(call[1].f.ret, r.ret)>>
    /\ pc' = "held"
    /\ lastOp' = "invoke"
    /\ UNCHANGED <<charSigned, cast, cmp, call, bound, coerced, exc>>

\* The next block of main(): the exception, if any, was caught.
NextBlock ==
    /\ pc \in {"done", "thrown"}
    /\ pc' = "idle"
    /\ lastOp' = "start"
    /\ cast' = <<>>
    /\ container' = <<>>
    /\ cmp' = <<>>
    /\ call' = <<>>
    /\ bound' = <<>>
    /\ calls' = 0
    /\ effects' = <<>>
    /\ coerced' = <<>>
    /\ exc' = <<>>
    /\ UNCHANGED charSigned

Next ==
    \/ CheckedCast
    \/ Construct
    \/ Compare
    \/ Coerce
    \/ BeginCall
    \/ BindArg
    \/ InvokeCallee
    \/ NextBlock

Spec == Init /\ [][Next]_vars

(***************************************************************************)
(* Properties                                                              *)
(***************************************************************************)
\* The direct checked_cast call of the current block, when there is one.
Cast == cast[1]

\* The round trip through P changes the value of argument a.
RoundTripDiffers(a, P) ==
    IsIntegral(a.T) /\ a.T # P /\ StaticCast(a.T, StaticCast(P, a.result)) # a.result

\* Some argument of the call in progress does not survive its conversion.
InputFails ==
    \E i \in 1..Len(call[1].args) : RoundTripDiffers(call[1].args[i], call[1].f.params[i])

\* C1: sign-loss detection.  checked_cast of a negative value of a signed
\* integral Source to an unsigned integral Target always throws.
C1_SignLossDetected ==
    (/\ cast # <<>>
     /\ Cast.Source.kind = "int" /\ Cast.Source.signed /\ Cast.v < 0
     /\ IsIntegral(Cast.Target) /\ ~Cast.Target.signed)
        => Cast.out.thrown

\* C2: magnitude-overflow detection.  checked_cast of a value that lies
\* outside the range of the integral Target always throws.
C2_MagnitudeOverflowDetected ==
    (/\ cast # <<>>
     /\ IsIntegral(Cast.Source) /\ IsIntegral(Cast.Target)
     /\ ~InRange(Cast.Target, Cast.v))
        => Cast.out.thrown

\* C3: round-trip law.  For distinct fixed-width integral Source and Target
\* checked_cast throws exactly when cast<Source>(cast<Target>(v)) differs
\* from v, and otherwise returns r = cast<Target>(v), typed Target, with
\* cast<Source>(r) = v.
C3_RoundTripLaw ==
    (/\ cast # <<>>
     /\ Cast.Source.kind = "int" /\ Cast.Target.kind = "int"
     /\ Cast.Source # Cast.Target)
        => /\ Cast.out.thrown <=>
                (StaticCast(Cast.Source, StaticCast(Cast.Target, Cast.v)) # Cast.v)
           /\ Cast.out.thrown => pc = "thrown" /\ exc # <<>>
           /\ ~Cast.out.thrown =>
                /\ pc = "done" /\ exc = <<>>
                /\ Cast.out.type = Cast.Target
                /\ Cast.out.val = StaticCast(Cast.Target, Cast.v)
                /\ InRange(Cast.Target, Cast.out.val)
                /\ StaticCast(Cast.Source, Cast.out.val) = Cast.v

\* A narrowing that loses the value: short 256 to unsigned char throws.
C3_Witness ==
    /\ cast # <<>>
    /\ Cast.Source = ShortT /\ Cast.Target = UCharT /\ Cast.v = 256
    /\ Cast.out.thrown

\* C4: input-side failure precedes the callee.  While an argument of the
\* call does not survive its conversion, the callee's body has not run and
\* has had no effect; the call can only end by throwing, from the binding
\* of a parameter, with a message whose text before the first colon is
\* "checked_cast<>() overflowed".
C4_InputFailurePrecedesCallee ==
    (call # <<>> /\ InputFails)
        => /\ calls = 0
           /\ effects = <<>>
           /\ container = <<>>
           /\ pc \in {"binding", "thrown"}
           /\ pc = "thrown" => lastOp = "bind" /\ first_colon(exc) = Overflowed

\* my_write called with size 142 on a signed-char build: the size is bound
\* after the buffer pointer, and thrown on.
C4_Witness ==
    /\ call # <<>>
    /\ call[1].f = my_write(TRUE)
    /\ call[1].args[2].result = 142
    /\ bound[1] # <<>>
    /\ pc = "thrown"

C6_SingleInvocation ==
    /\ calls <= 1
    /\ Len(effects) = calls
    /\ call # <<>> =>
         /\ (pc = "binding" \/ lastOp = "bind") => calls = 0
         /\ (pc \in {"held", "done", "thrown"} /\ AllBound(bound) /\ lastOp # "bind")
               => calls = 1
         /\ pc \in {"held", "done"} => AllBound(bound)

\* A call whose returned wrapper failed to coerce: the callee ran once.
C6_Witness ==
    /\ call # <<>>
    /\ call[1].overload = "parameter"
    /\ pc = "thrown" /\ lastOp = "coerce"
    /\ calls = 1

\* The callee returns its size parameter and takes a size_t argument there.
ReturnsItsSize == call[1].f.name \in {"my_write", "my_write_ok"}

\* The caller-side size n of the call in progress.
CallerSize == call[1].args[call[1].f.size].result

\* C7: successful wrapped call.  With my_write or my_write_ok and a size n
\* representable in the callee's parameter type, no binding throws; and if
\* the value returned is representable in the one-byte type the caller
\* asks for, the coercion does not throw and its result, widened back to
\* size_t, equals n.
C7_SuccessfulCall ==
    (/\ call # <<>>
     /\ ReturnsItsSize
     /\ InRange(call[1].f.params[call[1].f.size], CallerSize))
        => /\ ~(pc = "thrown" /\ lastOp = "bind")
           /\ (/\ coerced # <<>>
               /\ coerced[1].U.bits = 8
               /\ InRange(coerced[1].U, container[1].result))
                  => /\ pc = "done"
                     /\ ~coerced[1].out.thrown
                     /\ exc = <<>>
                     /\ StaticCast(SizeT, coerced[1].out.val) = CallerSize

\* Scenario 1: my_write with size 100, the result stored in a char.
C7_Witness ==
    /\ call # <<>> /\ coerced # <<>>
    /\ call[1].f = my_write(charSigned)
    /\ CallerSize = 100
    /\ coerced[1].U = CharT(charSigned)
    /\ pc = "done"
    /\ StaticCast(SizeT, coerced[1].out.val) = 100

\* C8: identity law.  checked_cast<T>(v) of a v of type T returns v itself,
\* typed T, and never throws.
C8_IdentityLaw ==
    (cast # <<>> /\ Cast.Target = Cast.Source)
        => /\ ~Cast.out.thrown
           /\ Cast.out.val = Cast.v
           /\ Cast.out.type = Cast.Source
           /\ pc = "done" /\ exc = <<>>

\* checked_cast<long>(long min).
C8_Witness ==
    /\ cast # <<>>
    /\ Cast.Target = SSizeT /\ Cast.Source = SSizeT /\ Cast.v = MinOf(SSizeT)
    /\ pc = "done"

\* C9: pass-through law.  checked_cast<Target>(v) of a v of a non-integral
\* Source returns v itself, still typed Source, whatever the Target, and
\* never throws.
C9_PassThroughLaw ==
    (cast # <<>> /\ ~IsIntegral(Cast.Source))
        => /\ ~Cast.out.thrown
           /\ Cast.out.val = Cast.v
           /\ Cast.out.type = Cast.Source
           /\ pc = "done" /\ exc = <<>>

\* checked_cast<signed char>(FILE* at address 70000).
C9_Witness ==
    /\ cast # <<>>
    /\ Cast.Source = FilePtr /\ Cast.Target = SCharT /\ Cast.v = 70000
    /\ pc = "done"

\* C10: deferred checking.  Constructing a wrapper, wrapping arguments or a
\* return value, and comparing a wrapper leave no exception; a comparison
\* gives != as the negation of ==, and == as the equality of the stored
\* value and the other one whenever neither is negative or both types have
\* the same signedness; an exception is only ever in flight right after a
\* coercion (or a direct checked_cast).
C10_DeferredChecking ==
    /\ lastOp \in {"construct", "compare", "wrap", "invoke"} => exc = <<>> /\ pc # "thrown"
    /\ exc # <<>> => lastOp \in {"coerce", "bind", "checked_cast"}
    /\ cmp # <<>> =>
         /\ pc = "held" /\ exc = <<>>
         /\ cmp[1].ne = ~cmp[1].eq
         /\ (\/ container[1].result >= 0 /\ cmp[1].other >= 0
             \/ container[1].T.signed = cmp[1].U.signed)
               => (cmp[1].eq <=> container[1].result = cmp[1].other)

\* A wrapper of the ssize_t 256, which no one-byte type holds, compared
\* unequal with the char 0.
C10_Witness ==
    /\ cmp # <<>>
    /\ container[1] = checked_cast_call_container(SSizeT, 256)
    /\ cmp[1].U = CharT(charSigned) /\ cmp[1].other = 0
    /\ ~cmp[1].eq /\ cmp[1].ne
    /\ exc = <<>>

====
